---- MODULE Spec2Model ----
(***************************************************************************)
(* Model of the Excel -> Notion synchroniser (src/app.py, src/df2notoin.py,*)
(* src/notion2df.py, src/preprocess.py).                                   *)
(*                                                                         *)
(* Python values are tagged records: [t |-> "none"], [t |-> "nan"],        *)
(* [t |-> "str", s |-> <<chars>>], [t |-> "int", n |-> i],                 *)
(* [t |-> "float", num |-> i, den |-> 10^k], [t |-> "bool", b |-> B],      *)
(* [t |-> "list", items |-> <<values>>], [t |-> "date", ...],              *)
(* [t |-> "datetime", ...], [t |-> "nat"] (pandas NaT).                    *)
(* A Python str is a sequence of one-character strings, so that strip,     *)
(* split, lower and float() are computed character by character.           *)
(* A Python dict with string keys is a TLA+ record.                        *)
(* The Korean column names of the source are transliterated:               *)
(*   "차트번호" -> "chart_no", "고객명" -> "name", "상태" -> "status",         *)
(*   "구분" -> "gubun", "예약일시" -> "resv_dt", "예약리스트" -> "resv_list",   *)
(*   "완납" -> "paid", "수술" -> "surgery", "시술" -> "procedure",            *)
(*   "완료" -> "done", "결정" -> "decided".                                  *)
(***************************************************************************)
EXTENDS Integers, Sequences, FiniteSets, TLC

\* ------------------------------------------------------------------------
\* Bounds of the model
\* ------------------------------------------------------------------------
MaxStrLen == 3

MaxNum == 11

MaxRequests == 3

MaxRows == 3

MaxPages == 2

\* ------------------------------------------------------------------------
\* Python values
\* ------------------------------------------------------------------------
None == [t |-> "none"]

NaN == [t |-> "nan"]

NaT == [t |-> "nat"]

PyStr(s) == [t |-> "str", s |-> s]

PyInt(n) == [t |-> "int", n |-> n]

PyFloat(num, den) == [t |-> "float", num |-> num, den |-> den]

PyBool(b) == [t |-> "bool", b |-> b]

PyList(items) == [t |-> "list", items |-> items]

PyDate(y, m, d) == [t |-> "date", y |-> y, m |-> m, d |-> d]

PyDateTime(y, m, d, hh, mm, ss) ==
    [t |-> "datetime", y |-> y, m |-> m, d |-> d, hh |-> hh, mm |-> mm, ss |-> ss]

\* dict.get(key) with the default None
DictGet(d, k) == IF k \in DOMAIN d THEN d[k] ELSE None

\* dict.get("type"): a type tag, or NoType where Python has None (equal to no tag)
NoType == "<None>"

GetType(d) == IF "type" \in DOMAIN d THEN d.type ELSE NoType

\* ------------------------------------------------------------------------
\* str methods
\* ------------------------------------------------------------------------
Whitespace == {" ", "\t", "\n"}

RECURSIVE lstrip(_)
lstrip(s) ==
    IF s = <<>> THEN <<>>
    ELSE IF Head(s) \in Whitespace THEN lstrip(Tail(s)) ELSE s

RECURSIVE rstrip(_)
rstrip(s) ==
    IF s = <<>> THEN <<>>
    ELSE IF s[Len(s)] \in Whitespace THEN rstrip(SubSeq(s, 1, Len(s) - 1)) ELSE s

strip(s) == rstrip(lstrip(s))

LowerChar(c) ==
    CASE c = "Y" -> "y"
      [] c = "T" -> "t"
      [] c = "A" -> "a"
      [] OTHER -> c

lower(s) == [i \in 1..Len(s) |-> LowerChar(s[i])]

\* str.split(","): the segments between commas, empty ones included
RECURSIVE SplitAcc(_, _, _)
SplitAcc(s, cur, acc) ==
    IF s = <<>> THEN Append(acc, cur)
    ELSE IF Head(s) = "," THEN SplitAcc(Tail(s), <<>>, Append(acc, cur))
    ELSE SplitAcc(Tail(s), Append(cur, Head(s)), acc)

split_comma(s) == SplitAcc(s, <<>>, <<>>)

\* "".join(parts)
RECURSIVE join(_)
join(parts) == IF parts = <<>> THEN <<>> ELSE Head(parts) \o join(Tail(parts))

\* ------------------------------------------------------------------------
\* str(value), float(value), bool(value)
\* ------------------------------------------------------------------------
Digits == <<"0", "1", "2", "3", "4", "5", "6", "7", "8", "9">>

DigitChars == {Digits[i] : i \in 1..10}

DigitVal(c) == CHOOSE i \in 0..9 : Digits[i + 1] = c

RECURSIVE NatToStr(_)
NatToStr(n) ==
    IF n < 10 THEN <<Digits[n + 1]>>
    ELSE NatToStr(n \div 10) \o <<Digits[(n % 10) + 1]>>

IntToStr(n) == IF n < 0 THEN <<"-">> \o NatToStr(-n) ELSE NatToStr(n)

\* n rendered with at least w digits (zero padded), as the %02d / %04d of isoformat
RECURSIVE PadLeft(_, _)
PadLeft(s, w) == IF Len(s) >= w THEN s ELSE PadLeft(<<"0">> \o s, w)

ZeroPad(n, w) == PadLeft(NatToStr(n), w)

RECURSIVE Log10(_)
Log10(den) == IF den <= 1 THEN 0 ELSE 1 + Log10(den \div 10)

Abs(n) == IF n < 0 THEN -n ELSE n

\* repr of a finite float num/den (den a power of ten, no trailing zero digit)
FloatToStr(f) ==
    LET a == Abs(f.num)
        ip == a \div f.den
        fp == a % f.den
        sign == IF f.num < 0 THEN <<"-">> ELSE <<>>
    IN  sign \o NatToStr(ip) \o <<".">>
        \o (IF f.den = 1 THEN <<"0">> ELSE ZeroPad(fp, Log10(f.den)))

date_isoformat(v) ==
    ZeroPad(v.y, 4) \o <<"-">> \o ZeroPad(v.m, 2) \o <<"-">> \o ZeroPad(v.d, 2)

time_isoformat(v) ==
    ZeroPad(v.hh, 2) \o <<":">> \o ZeroPad(v.mm, 2) \o <<":">> \o ZeroPad(v.ss, 2)

datetime_isoformat(v, sep) == date_isoformat(v) \o <<sep>> \o time_isoformat(v)

\* str() of a scalar
ScalarStr(v) ==
    CASE v.t = "str" -> v.s
      [] v.t = "int" -> IntToStr(v.n)
      [] v.t = "float" -> FloatToStr(v)
      [] v.t = "bool" -> IF v.b THEN <<"T", "r", "u", "e">> ELSE <<"F", "a", "l", "s", "e">>
      [] v.t = "none" -> <<"N", "o", "n", "e">>
      [] v.t = "nan" -> <<"n", "a", "n">>
      [] v.t = "nat" -> <<"N", "a", "T">>
      [] v.t = "date" -> date_isoformat(v)
      [] v.t = "datetime" -> datetime_isoformat(v, " ")
      [] OTHER -> <<"?">>

\* repr() of a list element: a str is quoted, anything else is its str()
ElemRepr(v) == IF v.t = "str" THEN <<"'">> \o v.s \o <<"'">> ELSE ScalarStr(v)

RECURSIVE ListBody(_)
ListBody(items) ==
    IF items = <<>> THEN <<>>
    ELSE IF Len(items) = 1 THEN ElemRepr(items[1])
    ELSE ElemRepr(items[1]) \o <<",", " ">> \o ListBody(Tail(items))

py_str(v) ==
    IF v.t = "list" THEN <<"[">> \o ListBody(v.items) \o <<"]">> ELSE ScalarStr(v)

RECURSIVE DigitsToNat(_)
DigitsToNat(s) ==
    IF s = <<>> THEN 0 ELSE DigitsToNat(SubSeq(s, 1, Len(s) - 1)) * 10 + DigitVal(s[Len(s)])

AllDigits(s) == \A i \in 1..Len(s) : s[i] \in DigitChars

RECURSIVE Pow10(_)
Pow10(k) == IF k = 0 THEN 1 ELSE 10 * Pow10(k - 1)

RECURSIVE DropTrailingZeros(_)
DropTrailingZeros(s) ==
    IF s # <<>> /\ s[Len(s)] = "0" THEN DropTrailingZeros(SubSeq(s, 1, Len(s) - 1)) ELSE s

FloatFail == [ok |-> FALSE, v |-> None]

\* float("...") of an unsigned decimal literal: digits, digits.digits, digits., .digits
ParseUnsigned(s, neg) ==
    LET dots == {i \in 1..Len(s) : s[i] = "."}
        sgn == IF neg THEN -1 ELSE 1
    IN  IF s = <<>> \/ Cardinality(dots) > 1 THEN FloatFail
        ELSE IF dots = {} THEN
            IF AllDigits(s) THEN [ok |-> TRUE, v |-> PyFloat(sgn * DigitsToNat(s), 1)]
            ELSE FloatFail
        ELSE
            LET p == CHOOSE i \in dots : TRUE
                ip == SubSeq(s, 1, p - 1)
                fp == DropTrailingZeros(SubSeq(s, p + 1, Len(s)))
                fraw == SubSeq(s, p + 1, Len(s))
            IN  IF AllDigits(ip) /\ AllDigits(fraw) /\ (ip # <<>> \/ fraw # <<>>) THEN
                    [ok |-> TRUE,
                     v |-> PyFloat(sgn * (DigitsToNat(ip) * Pow10(Len(fp)) + DigitsToNat(fp)),
                                 Pow10(Len(fp)))]
                ELSE FloatFail

\* float(value): ok = FALSE stands for the exception float() raises
py_float(v) ==
    CASE v.t = "int" -> [ok |-> TRUE, v |-> PyFloat(v.n, 1)]
      [] v.t = "float" -> [ok |-> TRUE, v |-> v]
      [] v.t = "bool" -> [ok |-> TRUE, v |-> PyFloat(IF v.b THEN 1 ELSE 0, 1)]
      [] v.t = "str" ->
            LET s == strip(v.s)
            IN  IF s # <<>> /\ Head(s) = "-" THEN ParseUnsigned(Tail(s), TRUE)
                ELSE IF s # <<>> /\ Head(s) = "+" THEN ParseUnsigned(Tail(s), FALSE)
                ELSE ParseUnsigned(s, FALSE)
      [] OTHER -> FloatFail

\* bool(value): Python truthiness
py_bool(v) ==
    CASE v.t = "bool" -> v.b
      [] v.t = "int" -> v.n # 0
      [] v.t = "float" -> v.num # 0
      [] v.t = "str" -> v.s # <<>>
      [] v.t = "list" -> v.items # <<>>
      [] v.t = "none" -> FALSE
      [] OTHER -> TRUE

\* ------------------------------------------------------------------------
\* src/df2notoin.py : the value encoder
\* ------------------------------------------------------------------------
\* a null test that compares with "" without stripping
_is_null_NoStrip(value) ==
    \/ value.t = "none"
    \/ value.t = "nan"
    \/ (value.t = "str" /\ value.s = <<>>)

_is_null(value) ==
    \/ value.t = "none"
    \/ value.t = "nan"
    \/ (value.t = "str" /\ strip(value.s) = <<>>)

_to_iso_date(value) ==
    CASE value.t = "datetime" -> datetime_isoformat(value, "T")
      [] value.t = "nat" -> <<"N", "a", "T">>
      [] value.t = "date" -> date_isoformat(value)
      [] value.t = "str" -> value.s
      [] OTHER -> py_str(value)

\* a text span that trims its content
TextSpan_Stripped(content) == [type |-> "text", text |-> [content |-> strip(content)]]

TextSpan(content) == [type |-> "text", text |-> [content |-> content]]

CheckboxTrue ==
    { <<"t", "r", "u", "e">>, <<"1">>, <<"y">>, <<"y", "e", "s">>, <<"t">> }

MultiSelectNames(value) ==
    IF value.t = "list" THEN
        LET kept == SelectSeq(value.items, LAMBDA v : ~_is_null(v))
        IN  [i \in 1..Len(kept) |-> strip(py_str(kept[i]))]
    ELSE
        LET segs == split_comma(py_str(value))
            kept == SelectSeq(segs, LAMBDA v : strip(v) # <<>>)
        IN  [i \in 1..Len(kept) |-> strip(kept[i])]

value_to_notion_property(value, prop_schema) ==
    IF _is_null(value) THEN None
    ELSE
        LET ptype == GetType(prop_schema)
        IN  CASE ptype = "title" -> [title |-> <<TextSpan(py_str(value))>>]
              [] ptype = "rich_text" -> [rich_text |-> <<TextSpan(py_str(value))>>]
              [] ptype = "number" ->
                    LET num == py_float(value)
                    IN  IF num.ok THEN [number |-> num.v] ELSE None
              [] ptype = "checkbox" ->
                    IF value.t = "str"
                    THEN [checkbox |-> lower(strip(value.s)) \in CheckboxTrue]
                    ELSE [checkbox |-> py_bool(value)]
              [] ptype = "select" -> [select |-> [name |-> py_str(value)]]
              [] ptype = "multi_select" ->
                    LET names == MultiSelectNames(value)
                    IN  IF names = <<>> THEN None
                        ELSE [multi_select |-> [i \in 1..Len(names) |-> [name |-> names[i]]]]
              [] ptype = "date" -> [date |-> [start |-> _to_iso_date(value)]]
              [] OTHER -> None

\* ------------------------------------------------------------------------
\* src/notion2df.py : the value decoder
\* In a property read back from the service the nullable JSON fields
\* (number, start, end, time_zone, select, status, date) hold Python values;
\* plain_text and name hold character sequences.
\* ------------------------------------------------------------------------
PlainTexts(spans) ==
    [i \in 1..Len(spans) |->
        IF "plain_text" \in DOMAIN spans[i] THEN spans[i].plain_text ELSE <<>>]

\* `x.get("name") if x else None` for x = prop.get(key)
OptionName(prop, key) ==
    LET x == DictGet(prop, key)
    IN  IF x = None THEN None
        ELSE IF "name" \in DOMAIN x THEN PyStr(x.name) ELSE None

_prop_to_simple_value(prop) ==
    LET ptype == GetType(prop)
    IN  CASE ptype = "title" -> PyStr(join(PlainTexts(prop.title)))
          [] ptype = "rich_text" -> PyStr(join(PlainTexts(prop.rich_text)))
          [] ptype = "number" -> DictGet(prop, "number")
          [] ptype = "select" -> OptionName(prop, "select")
          [] ptype = "status" -> OptionName(prop, "status")
          [] ptype = "date" ->
                LET d == DictGet(prop, "date")
                IN  IF d = None THEN None
                    ELSE
                        LET start == DictGet(d, "start")
                            end == DictGet(d, "end")
                            tz == DictGet(d, "time_zone")
                        IN  IF py_bool(end)
                            THEN [start |-> start, end |-> end, time_zone |-> tz]
                            ELSE start
          [] OTHER -> prop

\* ------------------------------------------------------------------------
\* pandas: a DataFrame is [columns |-> <<names>>, recs |-> <<[label, row]>>]:
\* each row keeps its index label, row is a function from column names
\* ------------------------------------------------------------------------
\* row.get(col)
RowGet(row, col) == IF col \in DOMAIN row THEN row[col] ELSE None

\* a frame with the default RangeIndex 0..n-1 over the given rows
RangeIndexFrame(columns, rows) ==
    [columns |-> columns,
     recs |-> [i \in 1..Len(rows) |-> [label |-> i - 1, row |-> rows[i]]]]

\* df.iloc[:-1]
iloc_drop_last(df) ==
    [columns |-> df.columns,
     recs |-> IF df.recs = <<>> THEN <<>> ELSE SubSeq(df.recs, 1, Len(df.recs) - 1)]

\* numeric ==, as pandas compares an int key with a float key
NumEq(a, b) ==
    LET fa == py_float(a)
        fb == py_float(b)
    IN  /\ a.t \in {"int", "float"}
        /\ b.t \in {"int", "float"}
        /\ fa.v.num * fb.v.den = fb.v.num * fa.v.den

\* pd.to_datetime of one cell: an ISO date string "YYYY-MM-DD" becomes its
\* ordinal key (order-isomorphic to the instant), a missing value becomes NaT
to_datetime(v) ==
    IF v.t = "str" /\ Len(v.s) = 10
    THEN PyInt(DigitsToNat(SubSeq(v.s, 1, 4)) * 10000
               + DigitsToNat(SubSeq(v.s, 6, 7)) * 100
               + DigitsToNat(SubSeq(v.s, 9, 10)))
    ELSE NaT

\* ------------------------------------------------------------------------
\* src/preprocess.py (the rows each function keeps and their labels; the
\* derived text columns are not modelled)
\* ------------------------------------------------------------------------
preprocess_reservation(df) == iloc_drop_last(df)

\* the rows kept by dropna(subset=["status"]) and then by status == "paid",
\* each with the label it had
preprocess_sales(df) ==
    LET cut == iloc_drop_last(df)
        dropped == SelectSeq(cut.recs, LAMBDA r : ~(r.row["status"].t \in {"none", "nan"}))
    IN  [columns |-> df.columns,
         recs |-> SelectSeq(dropped, LAMBDA r : r.row["status"] = PyStr(<<"p", "a", "i", "d">>))]

\* ------------------------------------------------------------------------
\* src/notion2df.py : notion_pages_to_dataframe
\* ------------------------------------------------------------------------
PageColumns == <<"page_id", "created_time", "last_edited_time", "url">>

PropColumns == <<"chart_no", "gubun", "status", "resv_dt">>

PageRow(page) ==
    [c \in {"page_id", "created_time", "last_edited_time", "url"} \cup DOMAIN page.properties |->
        CASE c = "page_id" -> DictGet(page, "id")
          [] c \in {"created_time", "last_edited_time", "url"} -> DictGet(page, c)
          [] OTHER -> _prop_to_simple_value(page.properties[c])]

notion_pages_to_dataframe(pages) ==
    IF pages = <<>> THEN [columns |-> <<>>, recs |-> <<>>]
    ELSE RangeIndexFrame(PageColumns \o PropColumns, [i \in 1..Len(pages) |-> PageRow(pages[i])])

\* ------------------------------------------------------------------------
\* src/app.py : st_excel_to_notion, the cross-reference of key "2"
\* ------------------------------------------------------------------------
GubunKept == {<<"s", "u", "r", "g", "e", "r", "y">>, <<"p", "r", "o", "c", "e", "d", "u", "r", "e">>}

StatusKept == {<<"d", "o", "n", "e">>, <<"d", "e", "c", "i", "d", "e", "d">>}

isin(v, names) == v.t = "str" /\ v.s \in names

\* lines 65-68
FilterReservation(df) ==
    [columns |-> df.columns,
     recs |-> SelectSeq(df.recs, LAMBDA r :
                isin(r.row["gubun"], GubunKept) /\ isin(r.row["status"], StatusKept))]

\* the positions of the rows of a group: same non-null chart_no
GroupPositions(df, key) ==
    {i \in 1..Len(df.recs) : NumEq(df.recs[i].row["chart_no"], key)}

\* an idxmax that takes the last dated row of the group
IdxMaxPosition_Last(df, key) ==
    LET dated == {i \in 1..Len(df.recs) :
                    /\ NumEq(df.recs[i].row["chart_no"], key)
                    /\ to_datetime(df.recs[i].row["resv_dt"]) # NaT}
    IN  IF dated = {} THEN 0 ELSE CHOOSE i \in dated : \A j \in dated : j <= i

\* groupby("chart_no")["resv_dt"].idxmax() for one group: the position of the
\* first row holding the greatest timestamp, NaT rows skipped; 0 when every
\* timestamp of the group is NaT
IdxMaxPosition(df, key) ==
    LET dated == {i \in GroupPositions(df, key) : to_datetime(df.recs[i].row["resv_dt"]) # NaT}
        ts(i) == to_datetime(df.recs[i].row["resv_dt"]).n
        best == {i \in dated : \A j \in dated : ts(j) <= ts(i)}
    IN  IF dated = {} THEN 0 ELSE CHOOSE i \in best : \A j \in best : i <= j

\* the group keys in the order groupby sorts them
GroupKeys(df) ==
    {df.recs[i].row["chart_no"].n : i \in {j \in 1..Len(df.recs) : df.recs[j].row["chart_no"].t = "int"}}

RECURSIVE SortedSeq(_)
SortedSeq(S) ==
    IF S = {} THEN <<>>
    ELSE LET m == CHOOSE x \in S : \A y \in S : x <= y IN <<m>> \o SortedSeq(S \ {m})

\* lines 71-72: one row per chart_no, columns chart_no and resv_list (= page_id)
LatestReservation(df) ==
    LET keys == SortedSeq(GroupKeys(df))
    IN  [columns |-> <<"chart_no", "resv_list">>,
         recs |-> [k \in 1..Len(keys) |->
            LET r == df.recs[IdxMaxPosition(df, PyInt(keys[k]))]
            IN  [label |-> r.label,
                 row |-> [c \in {"chart_no", "resv_list"} |->
                            IF c = "chart_no" THEN r.row["chart_no"] ELSE r.row["page_id"]]]]]

\* some group has no timestamp at all: idxmax yields no label and .loc raises
IdxMaxFails(df) == \E k \in GroupKeys(df) : IdxMaxPosition(df, PyInt(k)) = 0

\* the rows one left row produces in pd.merge(how="left", on=["chart_no"])
JoinedRows(lrow, right) ==
    LET hits == SelectSeq(right.recs, LAMBDA r : NumEq(r.row["chart_no"], lrow["chart_no"]))
        with(v) == [c \in DOMAIN lrow \cup {"resv_list"} |->
                        IF c = "resv_list" THEN v ELSE lrow[c]]
    IN  IF hits = <<>> THEN <<with(NaN)>>
        ELSE [i \in 1..Len(hits) |-> with(hits[i].row["resv_list"])]

RECURSIVE ConcatAll(_)
ConcatAll(seqs) == IF seqs = <<>> THEN <<>> ELSE Head(seqs) \o ConcatAll(Tail(seqs))

\* a merge that kept the labels of the left frame
pd_merge_left_KeepIndex(left, right) ==
    [columns |-> left.columns \o <<"resv_list">>,
     recs |-> ConcatAll([i \in 1..Len(left.recs) |->
                [j \in 1..Len(JoinedRows(left.recs[i].row, right)) |->
                    [label |-> left.recs[i].label,
                     row |-> JoinedRows(left.recs[i].row, right)[j]]]])]

\* lines 74-79: the result carries a fresh RangeIndex
pd_merge_left(left, right) ==
    RangeIndexFrame(left.columns \o <<"resv_list">>,
                    ConcatAll([i \in 1..Len(left.recs) |-> JoinedRows(left.recs[i].row, right)]))

\* lines 63-79 on the pages the query returned; raised = TRUE where pandas raises
CrossReference(processed, pages) ==
    LET df_reservation == notion_pages_to_dataframe(pages)
    IN  IF pages = <<>> THEN [raised |-> TRUE, df |-> processed]
        ELSE
            LET filtered == FilterReservation(df_reservation)
            IN  IF IdxMaxFails(filtered) THEN [raised |-> TRUE, df |-> processed]
                ELSE [raised |-> FALSE, df |-> pd_merge_left(processed, LatestReservation(filtered))]

\* ------------------------------------------------------------------------
\* State
\* ------------------------------------------------------------------------
VARIABLES
    \* encoder / decoder applied to one value
    e_pc, e_value, e_schema, e_payload, e_decoded,
    \* query_notion_data_source_filtered: its locals, the requests it sent, the
    \* responses it got, and what its caller received
    q_pc, sort_payload, results, has_more, start_cursor, requests, responses, q_ret,
    \* st_excel_to_notion: the tab's key, the frame read from the file, the pages
    \* the query returned, the frame shown and uploaded
    a_pc, key, raw_df, pages, processed_df,
    \* upload_dataframe_to_notion_data_source: its argument and locals, the create
    \* calls it made, the records the service holds, the exception that left it,
    \* and the caller's page_ids
    column_mapping, properties_schema, row_pos, created_page_ids, posts, remote,
    u_exc, page_ids

a_vars == <<a_pc, key, raw_df, pages, processed_df>>

u_vars ==
    <<column_mapping, properties_schema, row_pos, created_page_ids, posts, remote,
      u_exc, page_ids>>

e_vars == <<e_pc, e_value, e_schema, e_payload, e_decoded>>

q_vars == <<q_pc, sort_payload, results, has_more, start_cursor, requests, responses, q_ret>>

vars == <<e_vars, q_vars, a_vars, u_vars>>

\* a caller's variable that no return value was assigned to
Unassigned == [t |-> "unassigned"]

EncodeIdle ==
    /\ e_pc = "idle"
    /\ e_value = None
    /\ e_schema = [id |-> "p"]
    /\ e_payload = None
    /\ e_decoded = None

QueryIdle ==
    /\ q_pc = "idle"
    /\ sort_payload = None
    /\ results = <<>>
    /\ has_more = TRUE
    /\ start_cursor = None
    /\ requests = <<>>
    /\ responses = <<>>
    /\ q_ret = Unassigned

EmptyFrame == [columns |-> <<>>, recs |-> <<>>]

UploadIdle ==
    /\ column_mapping = None
    /\ properties_schema = <<>>
    /\ row_pos = 0
    /\ created_page_ids = <<>>
    /\ posts = <<>>
    /\ remote = <<>>
    /\ u_exc = None
    /\ page_ids = Unassigned

AppIdle ==
    /\ a_pc = "idle"
    /\ key = "0"
    /\ raw_df = EmptyFrame
    /\ pages = <<>>
    /\ processed_df = EmptyFrame
    /\ UploadIdle

\* ------------------------------------------------------------------------
\* Inputs of the encoder
\* ------------------------------------------------------------------------
Chars == {" ", "a", "1", ",", "."}

RECURSIVE StringsOfLen(_)
StringsOfLen(n) ==
    IF n = 0 THEN {<<>>}
    ELSE {Append(s, c) : s \in StringsOfLen(n - 1), c \in Chars}

Strings == UNION {StringsOfLen(n) : n \in 0..MaxStrLen}

SampleStrings ==
    { <<"a", ",", " ", "b", " ", ",", "c">>,
      <<"\t", " ", "\n">>,
      <<" ", "Y", "e", "s", " ">>,
      <<"t", "r", "u", "e">>,
      <<"-", "1", ".", "5", "0">>,
      <<"2", "0", "2", "4", "-", "0", "1", "-", "0", "5">> }

NumberValues ==
    {PyInt(n) : n \in -MaxNum..MaxNum}
    \cup {PyFloat(n, 1) : n \in -MaxNum..MaxNum}
    \cup {PyFloat(n, 10) : n \in {k \in -MaxNum..MaxNum : k % 10 # 0}}

ListElems == {None, NaN, PyStr(<<>>), PyStr(<<" ", "a">>), PyStr(<<"b">>), PyInt(1)}

ListValues ==
    {PyList(<<>>)} \cup {PyList(<<x>>) : x \in ListElems}
    \cup {PyList(<<x, y>>) : x \in ListElems, y \in ListElems}

Values ==
    {None, NaN, NaT, PyBool(TRUE), PyBool(FALSE),
     PyDate(2024, 1, 5), PyDateTime(2024, 12, 31, 9, 5, 0)}
    \cup {PyStr(s) : s \in Strings \cup SampleStrings}
    \cup NumberValues \cup ListValues

TypeTags ==
    {"title", "rich_text", "number", "checkbox", "select", "multi_select", "date",
     "status", "relation"}

\* a property schema as the service returns it, and one without a "type" key
PropSchemas == {[id |-> "p", type |-> ty] : ty \in TypeTags} \cup {[id |-> "p"]}

\* ------------------------------------------------------------------------
\* SpecEncode: value_to_notion_property on one value, then
\* _prop_to_simple_value on the payload it built
\* ------------------------------------------------------------------------
InitEncode ==
    /\ e_pc = "start"
    /\ e_value \in Values
    /\ e_schema \in PropSchemas
    /\ e_payload = None
    /\ e_decoded = None
    /\ QueryIdle
    /\ AppIdle

Encode ==
    /\ e_pc = "start"
    /\ e_payload' = value_to_notion_property(e_value, e_schema)
    /\ e_pc' = "encoded"
    /\ UNCHANGED <<e_value, e_schema, e_decoded, q_vars, a_vars, u_vars>>

Decode ==
    /\ e_pc = "encoded"
    /\ e_payload # None
    /\ e_decoded' = _prop_to_simple_value(e_payload)
    /\ e_pc' = "decoded"
    /\ UNCHANGED <<e_value, e_schema, e_payload, q_vars, a_vars, u_vars>>

NextEncode == Encode \/ Decode

SpecEncode == InitEncode /\ [][NextEncode]_vars

\* ------------------------------------------------------------------------
\* SpecQuery: src/notion2df.py query_notion_data_source_filtered.
\* One action is one iteration of the while loop: the request, the blocking
\* wait for its response, and what the loop does with it.
\* ------------------------------------------------------------------------
PageSize == 100

RecordBatches == {<<>>, <<"r1">>, <<"r2">>, <<"r1", "r2">>}

Cursors == {None, PyStr(<<>>), PyStr(<<"c", "1">>), PyStr(<<"c", "2">>)}

\* r.json() of a successful response; the last one lacks every key the loop reads
OkResponses ==
    [ok : {TRUE}, results : RecordBatches, has_more : BOOLEAN, next_cursor : Cursors]
    \cup {[ok |-> TRUE, object |-> "list"]}

\* a non-success status, or the exception of a timed out request
Failures ==
    {[kind |-> "status", status |-> st] : st \in {400, 429, 500}}
    \cup {[kind |-> "timeout"]}

SortPayloads == {None, PyList(<<PyStr(<<"s">>)>>)}

\* a body that never carries the cursor
QueryBody_NoCursor ==
    IF py_bool(sort_payload)
    THEN [page_size |-> PageSize, filter |-> "filter_payload", sorts |-> sort_payload]
    ELSE [page_size |-> PageSize, filter |-> "filter_payload"]

\* lines 32-36
QueryBody ==
    IF py_bool(sort_payload) /\ py_bool(start_cursor) THEN
        [page_size |-> PageSize, filter |-> "filter_payload",
         sorts |-> sort_payload, start_cursor |-> start_cursor]
    ELSE IF py_bool(sort_payload) THEN
        [page_size |-> PageSize, filter |-> "filter_payload", sorts |-> sort_payload]
    ELSE IF py_bool(start_cursor) THEN
        [page_size |-> PageSize, filter |-> "filter_payload", start_cursor |-> start_cursor]
    ELSE
        [page_size |-> PageSize, filter |-> "filter_payload"]

DataResults(data) == IF "results" \in DOMAIN data THEN data.results ELSE <<>>

DataHasMore(data) == IF "has_more" \in DOMAIN data THEN data.has_more ELSE FALSE

InitQuery ==
    /\ q_pc = "loop"
    /\ sort_payload \in SortPayloads
    /\ results = <<>>
    /\ has_more = TRUE
    /\ start_cursor = None
    /\ requests = <<>>
    /\ responses = <<>>
    /\ q_ret = Unassigned
    /\ EncodeIdle
    /\ AppIdle

\* a loop that keeps only the records of the page it just read
QueryPageOk_Overwrite(data) ==
    /\ q_pc = "loop"
    /\ has_more
    /\ Len(requests) < MaxRequests
    /\ requests' = Append(requests, QueryBody)
    /\ responses' = Append(responses, data)
    /\ results' = DataResults(data)
    /\ has_more' = DataHasMore(data)
    /\ start_cursor' = DictGet(data, "next_cursor")
    /\ IF DataHasMore(data)
       THEN q_pc' = "loop" /\ q_ret' = q_ret
       ELSE q_pc' = "done" /\ q_ret' = PyList(DataResults(data))
    /\ UNCHANGED <<sort_payload, e_vars, a_vars, u_vars>>

\* lines 31-50, and line 52 when the loop ends
QueryPageOk(data) ==
    /\ q_pc = "loop"
    /\ has_more
    /\ Len(requests) < MaxRequests
    /\ requests' = Append(requests, QueryBody)
    /\ responses' = Append(responses, data)
    /\ results' = results \o DataResults(data)
    /\ has_more' = DataHasMore(data)
    /\ start_cursor' = DictGet(data, "next_cursor")
    /\ IF DataHasMore(data)
       THEN q_pc' = "loop" /\ q_ret' = q_ret
       ELSE q_pc' = "done" /\ q_ret' = PyList(results \o DataResults(data))
    /\ UNCHANGED <<sort_payload, e_vars, a_vars, u_vars>>

\* a failure that ends the loop and returns what was accumulated
QueryPageFail_ReturnsPartial(failure) ==
    /\ q_pc = "loop"
    /\ has_more
    /\ Len(requests) < MaxRequests
    /\ requests' = Append(requests, QueryBody)
    /\ responses' = Append(responses, [ok |-> FALSE, failure |-> failure])
    /\ q_pc' = "done"
    /\ q_ret' = PyList(results)
    /\ UNCHANGED <<sort_payload, results, has_more, start_cursor, e_vars, a_vars, u_vars>>

\* lines 38-45: the response is not ok (or the request raised): the exception
\* leaves the function, and its caller has no handler
QueryPageFail(failure) ==
    /\ q_pc = "loop"
    /\ has_more
    /\ Len(requests) < MaxRequests
    /\ requests' = Append(requests, QueryBody)
    /\ responses' = Append(responses, [ok |-> FALSE, failure |-> failure])
    /\ q_pc' = "raised"
    /\ UNCHANGED <<sort_payload, results, has_more, start_cursor, q_ret, e_vars, a_vars, u_vars>>

NextQuery ==
    \/ \E data \in OkResponses : QueryPageOk(data)
    \/ \E failure \in Failures : QueryPageFail(failure)

SpecQuery == InitQuery /\ [][NextQuery]_vars

\* ------------------------------------------------------------------------
\* Inputs of the app: the uploaded sheet and the pages of the reservation
\* data source
\* ------------------------------------------------------------------------
Paid == PyStr(<<"p", "a", "i", "d">>)

Due == PyStr(<<"d", "u", "e">>)

Kim == PyStr(<<"k", "i", "m">>)

SheetColumns == <<"chart_no", "name", "status">>

SheetRow(chart_no, name, status) ==
    [c \in {"chart_no", "name", "status"} |->
        CASE c = "chart_no" -> chart_no
          [] c = "name" -> name
          [] OTHER -> status]

\* rows of a sales or reservation export
DataRows ==
    {SheetRow(PyInt(100), Kim, Paid), SheetRow(PyInt(100), NaN, Paid),
     SheetRow(PyInt(999), Kim, Paid), SheetRow(PyInt(100), Kim, Due),
     SheetRow(PyInt(999), NaN, Due)}

\* the rows that differ in what the cross-reference reads
SalesRows ==
    {SheetRow(PyInt(100), Kim, Paid), SheetRow(PyInt(999), Kim, Paid),
     SheetRow(PyInt(100), Kim, Due)}

\* the last row of an export is its totals row
TotalsRow == [c \in {"chart_no", "name", "status"} |-> NaN]

RECURSIVE SeqsOfLen(_, _)
SeqsOfLen(S, n) ==
    IF n = 0 THEN {<<>>} ELSE {Append(q, x) : q \in SeqsOfLen(S, n - 1), x \in S}

SeqsUpTo(S, n) == UNION {SeqsOfLen(S, k) : k \in 0..n}

\* pd.read_excel: a RangeIndex frame
ReadExcel(rows) == RangeIndexFrame(SheetColumns, Append(rows, TotalsRow))

RawFrames == {ReadExcel(rows) : rows \in SeqsUpTo(DataRows, MaxRows)}

SalesFrames == {ReadExcel(rows) : rows \in SeqsUpTo(SalesRows, MaxRows)}

Day1 == PyStr(date_isoformat(PyDate(2024, 1, 5)))

Day2 == PyStr(date_isoformat(PyDate(2024, 2, 1)))

NumberProp(v) == [type |-> "number", number |-> v]

SelectProp(name) == [type |-> "select", select |-> [name |-> name]]

StatusProp(name) == [type |-> "status", status |-> [name |-> name]]

DateProp(start) ==
    IF start = None THEN [type |-> "date", date |-> None]
    ELSE [type |-> "date", date |-> [start |-> start, end |-> None, time_zone |-> None]]

\* what distinguishes one reservation page from another
PageKind(chart_no, gubun, status, start) ==
    [chart_no |-> chart_no, kind |-> <<gubun, status>>, start |-> start]

PageKinds ==
    {PageKind(PyInt(c), "surgery", "done", d) : c \in {100, 200}, d \in {Day1, Day2}}
    \cup {PageKind(PyInt(100), "consult", "done", Day2),
          PageKind(PyInt(100), "surgery", "cancel", Day2),
          PageKind(PyInt(100), "surgery", "done", None),
          PageKind(PyInt(200), "surgery", "done", None)}

KindName(k) ==
    CASE k = "surgery" -> <<"s", "u", "r", "g", "e", "r", "y">>
      [] k = "consult" -> <<"c", "o", "n", "s", "u", "l", "t">>
      [] k = "done" -> <<"d", "o", "n", "e">>
      [] OTHER -> <<"c", "a", "n", "c", "e", "l">>

\* the i-th page of a query result: its id is unique
MakePage(i, pk) ==
    [id |-> PyStr(<<"p">> \o NatToStr(i)),
     properties |->
        [chart_no |-> NumberProp(pk.chart_no),
         gubun |-> SelectProp(KindName(pk.kind[1])),
         status |-> StatusProp(KindName(pk.kind[2])),
         resv_dt |-> DateProp(pk.start)]]

PageSeqs ==
    {[i \in 1..Len(ks) |-> MakePage(i, ks[i])] : ks \in SeqsUpTo(PageKinds, MaxPages)}

\* ------------------------------------------------------------------------
\* src/app.py : st_excel_to_notion up to the preview of the processed frame
\* ------------------------------------------------------------------------
\* line 45; tab "1" goes straight to the preview
Preprocess ==
    /\ a_pc = "read"
    /\ IF key = "1"
       THEN /\ processed_df' = preprocess_reservation(raw_df)
            /\ a_pc' = "shown"
       ELSE /\ processed_df' = preprocess_sales(raw_df)
            /\ a_pc' = "query"
    /\ UNCHANGED <<key, raw_df, pages, u_vars, e_vars, q_vars>>

\* lines 47-79 of tab "2", once load_notion_df_filtered has returned pages
CrossReferenceStep ==
    /\ a_pc = "query"
    /\ key = "2"
    /\ LET r == CrossReference(processed_df, pages)
       IN  IF r.raised
           THEN a_pc' = "raised" /\ processed_df' = processed_df
           ELSE a_pc' = "shown" /\ processed_df' = r.df
    /\ UNCHANGED <<key, raw_df, pages, u_vars, e_vars, q_vars>>

InitMerge ==
    /\ a_pc = "read"
    /\ key = "2"
    /\ raw_df \in SalesFrames
    /\ pages \in PageSeqs
    /\ processed_df = EmptyFrame
    /\ UploadIdle
    /\ EncodeIdle
    /\ QueryIdle

NextMerge == Preprocess \/ CrossReferenceStep

SpecMerge == InitMerge /\ [][NextMerge]_vars

\* ------------------------------------------------------------------------
\* src/df2notoin.py : upload_dataframe_to_notion_data_source, called by the
\* "upload" button of st_excel_to_notion (src/app.py lines 94-103).
\* The app passes no column_mapping; the explicit mapping below exercises the
\* function's documented parameter.  A mapping is the sequence of its items.
\* ------------------------------------------------------------------------
ExplicitMapping ==
    << <<"chart_no", "chart_no">>, <<"name", "Name">>, <<"status", "Name">>,
       <<"memo", "name">> >>

ColumnMappings == {None, PyList(ExplicitMapping)}

\* lines 184-185
DefaultMapping(mapping, df) ==
    IF mapping = None
    THEN PyList([i \in 1..Len(df.columns) |-> <<df.columns[i], df.columns[i]>>])
    ELSE mapping

TitleSchema == [id |-> "a", type |-> "title"]

\* data["properties"] of the data source, as the service may define it
Schemas ==
    { [chart_no |-> [id |-> "a", type |-> "number"], name |-> TitleSchema,
       status |-> [id |-> "c", type |-> "select"], resv_list |-> [id |-> "d", type |-> "relation"]],
      [name |-> TitleSchema],
      [Name |-> TitleSchema, chart_no |-> [id |-> "b", type |-> "number"]],
      [status |-> [id |-> "c", type |-> "status"], resv_list |-> [id |-> "d", type |-> "relation"]],
      [chart_no |-> [id |-> "a", type |-> "number"], resv_list |-> [id |-> "d", type |-> "rich_text"]],
      [Name |-> [id |-> "a", type |-> "rich_text"], name |-> [id |-> "b", type |-> "select"]],
      [other |-> [id |-> "a", type |-> "number"]],
      [name |-> TitleSchema, status |-> [id |-> "c", type |-> "checkbox"]] }

\* an upload that sends empty rows too
IsEmptyPayload_Never(payload) == FALSE

\* line 208: `not properties_payload`
IsEmptyPayload(payload) == DOMAIN payload = {}

\* properties_payload[name] = prop_payload
DictSet(d, k, v) == [n \in DOMAIN d \cup {k} |-> IF n = k THEN v ELSE d[n]]

\* a loop that encodes a column missing from the schema as rich_text
RECURSIVE BuildPayload_DefaultType(_, _, _, _)
BuildPayload_DefaultType(items, row, schema, acc) ==
    IF items = <<>> THEN acc
    ELSE
        LET df_col == Head(items)[1]
            notion_prop_name == Head(items)[2]
            prop_schema ==
                IF notion_prop_name \in DOMAIN schema THEN schema[notion_prop_name]
                ELSE [type |-> "rich_text"]
            prop_payload == value_to_notion_property(RowGet(row, df_col), prop_schema)
        IN  IF prop_payload # None
            THEN BuildPayload_DefaultType(Tail(items), row, schema,
                                          DictSet(acc, notion_prop_name, prop_payload))
            ELSE BuildPayload_DefaultType(Tail(items), row, schema, acc)

\* lines 196-206: the loop over column_mapping.items()
RECURSIVE BuildPayload(_, _, _, _)
BuildPayload(items, row, schema, acc) ==
    IF items = <<>> THEN acc
    ELSE
        LET df_col == Head(items)[1]
            notion_prop_name == Head(items)[2]
        IN  IF notion_prop_name \notin DOMAIN schema
            THEN BuildPayload(Tail(items), row, schema, acc)
            ELSE
                LET prop_payload ==
                        value_to_notion_property(RowGet(row, df_col), schema[notion_prop_name])
                IN  IF prop_payload # None
                    THEN BuildPayload(Tail(items), row, schema,
                                      DictSet(acc, notion_prop_name, prop_payload))
                    ELSE BuildPayload(Tail(items), row, schema, acc)

EmptyDict == [n \in {} |-> None]

\* the payload of the row the loop is at
RowPayload == 
    BuildPayload(column_mapping.items, processed_df.recs[row_pos].row,
                 properties_schema, EmptyDict)

\* the exception class of lines 227 and 233
CreateErrorClass == "NotionAPIError"

RateLimitErrorClass == "NotionAPIError"

\* the loop goes on to the row at position next, or the function returns
\* (line 240) and the app assigns page_ids (line 97)
Advance(next, ids) ==
    /\ row_pos' = next
    /\ IF next > Len(processed_df.recs)
       THEN a_pc' = "done" /\ page_ids' = PyList(ids)
       ELSE a_pc' = "rows" /\ page_ids' = page_ids

\* lines 184-191, the schema request answered with success
GetSchemaOk(schema) ==
    /\ a_pc = "shown"
    /\ column_mapping' = DefaultMapping(column_mapping, processed_df)
    /\ properties_schema' = schema
    /\ created_page_ids' = <<>>
    /\ Advance(1, <<>>)
    /\ UNCHANGED <<key, raw_df, pages, processed_df, posts, remote, u_exc, e_vars, q_vars>>

\* df2notoin.py lines 33-37
GetSchemaFail(status) ==
    /\ a_pc = "shown"
    /\ column_mapping' = DefaultMapping(column_mapping, processed_df)
    /\ u_exc' = [cls |-> "NotionAPIError", msg |-> "schema_failed", status |-> status]
    /\ a_pc' = "upload_raised"
    /\ UNCHANGED <<key, raw_df, pages, processed_df, properties_schema, row_pos,
                   created_page_ids, posts, remote, page_ids, e_vars, q_vars>>

\* lines 193-210: nothing to send for this row
SkipRow ==
    /\ a_pc = "rows"
    /\ IsEmptyPayload(RowPayload)
    /\ Advance(row_pos + 1, created_page_ids)
    /\ UNCHANGED <<key, raw_df, pages, processed_df, column_mapping, properties_schema,
                   created_page_ids, posts, remote, u_exc, e_vars, q_vars>>

CreateCall(status) ==
    [idx |-> processed_df.recs[row_pos].label, pos |-> row_pos,
     properties |-> RowPayload, status |-> status]

\* res.json()["id"]: the service names the record it created
NewPageId == PyStr(<<"n">> \o NatToStr(Len(remote) + 1))

\* lines 193-238: the create call succeeds
CreateOk ==
    /\ a_pc = "rows"
    /\ ~IsEmptyPayload(RowPayload)
    /\ posts' = Append(posts, CreateCall(200))
    /\ remote' = Append(remote, [id |-> NewPageId, pos |-> row_pos, properties |-> RowPayload])
    /\ created_page_ids' = Append(created_page_ids, NewPageId)
    /\ Advance(row_pos + 1, Append(created_page_ids, NewPageId))
    /\ UNCHANGED <<key, raw_df, pages, processed_df, column_mapping, properties_schema,
                   u_exc, e_vars, q_vars>>

\* a 429 that ends the loop and returns what was collected
CreateRateLimited_ReturnsCollected ==
    /\ a_pc = "rows"
    /\ ~IsEmptyPayload(RowPayload)
    /\ posts' = Append(posts, CreateCall(429))
    /\ a_pc' = "done"
    /\ page_ids' = PyList(created_page_ids)
    /\ UNCHANGED <<key, raw_df, pages, processed_df, column_mapping, properties_schema,
                   row_pos, created_page_ids, remote, u_exc, e_vars, q_vars>>

\* lines 226-230
CreateRateLimited ==
    /\ a_pc = "rows"
    /\ ~IsEmptyPayload(RowPayload)
    /\ posts' = Append(posts, CreateCall(429))
    /\ u_exc' = [cls |-> RateLimitErrorClass, msg |-> "rate_limited"]
    /\ a_pc' = "upload_raised"
    /\ UNCHANGED <<key, raw_df, pages, processed_df, column_mapping, properties_schema,
                   row_pos, created_page_ids, remote, page_ids, e_vars, q_vars>>

\* lines 232-236
CreateFail(status) ==
    /\ a_pc = "rows"
    /\ ~IsEmptyPayload(RowPayload)
    /\ posts' = Append(posts, CreateCall(status))
    /\ u_exc' = [cls |-> CreateErrorClass, msg |-> "create_failed",
                 idx |-> processed_df.recs[row_pos].label, status |-> status]
    /\ a_pc' = "upload_raised"
    /\ UNCHANGED <<key, raw_df, pages, processed_df, column_mapping, properties_schema,
                   row_pos, created_page_ids, remote, page_ids, e_vars, q_vars>>

\* non-success statuses other than 429
ErrorStatuses == {400, 500}

\* the pages a query of the reservation data source returned, for tab "2"
UploadPages ==
    { <<MakePage(1, PageKind(PyInt(100), "surgery", "done", Day1))>>,
      <<MakePage(1, PageKind(PyInt(200), "surgery", "done", Day1)),
        MakePage(2, PageKind(PyInt(100), "surgery", "done", Day2))>> }

InitUpload ==
    /\ a_pc = "read"
    /\ key \in {"1", "2"}
    /\ raw_df \in RawFrames
    /\ pages \in UploadPages
    /\ processed_df = EmptyFrame
    /\ column_mapping \in ColumnMappings
    /\ properties_schema = <<>>
    /\ row_pos = 0
    /\ created_page_ids = <<>>
    /\ posts = <<>>
    /\ remote = <<>>
    /\ u_exc = None
    /\ page_ids = Unassigned
    /\ EncodeIdle
    /\ QueryIdle

NextUpload ==
    \/ Preprocess
    \/ CrossReferenceStep
    \/ \E schema \in Schemas : GetSchemaOk(schema)
    \/ \E status \in ErrorStatuses \cup {429} : GetSchemaFail(status)
    \/ SkipRow
    \/ CreateOk
    \/ CreateRateLimited
    \/ \E status \in ErrorStatuses : CreateFail(status)

SpecUpload == InitUpload /\ [][NextUpload]_vars

\* ========================================================================
\* Properties
\* ========================================================================

\* ---- helpers of the properties (stated on the logs, not on the locals) ----
LastPost == posts[Len(posts)]

\* row i (1-based position in the uploaded frame) has a mapped column that is
\* in the schema and does not encode to omit
RowHasData(i) ==
    \E k \in 1..Len(column_mapping.items) :
        LET df_col == column_mapping.items[k][1]
            prop == column_mapping.items[k][2]
        IN  /\ prop \in DOMAIN properties_schema
            /\ value_to_notion_property(RowGet(processed_df.recs[i].row, df_col),
                                        properties_schema[prop]) # None

PostedPositions == {posts[i].pos : i \in 1..Len(posts)}

PostsInRowOrder == \A i, j \in 1..Len(posts) : i < j => posts[i].pos < posts[j].pos

RateLimitedAtLast == posts # <<>> /\ LastPost.status = 429

CreateFailedAtLast == posts # <<>> /\ LastPost.status \notin {200, 429}

\* C1 (as stated): a 429 on row k raises an error of a kind distinct from the
\* other create failures, and the caller receives the identifiers of the rows
\* created before row k.
C1_RateLimitReturnsPartialIds ==
    RateLimitedAtLast =>
        /\ a_pc = "upload_raised"
        /\ u_exc.cls # CreateErrorClass
        /\ page_ids = PyList(created_page_ids)

\* C1 (amended): a 429 on row k raises NotionAPIError, the class of every
\* other create failure (only its message tells it apart); the caller receives
\* no identifier; the records the service holds are exactly those of the rows
\* before k that had something to send, in row order.
C1_RateLimitAborts ==
    RateLimitedAtLast =>
        /\ a_pc = "upload_raised"
        /\ u_exc = [cls |-> CreateErrorClass, msg |-> "rate_limited"]
        /\ page_ids = Unassigned
        /\ LastPost.pos = row_pos
        /\ Len(remote) = Len(posts) - 1
        /\ \A i \in 1..Len(remote) :
            /\ remote[i].pos = posts[i].pos
            /\ posts[i].status = 200
            /\ remote[i].id = created_page_ids[i]
            /\ remote[i].properties = posts[i].properties
        /\ Len(created_page_ids) = Len(remote)
        /\ PostsInRowOrder
        /\ {remote[i].pos : i \in 1..Len(remote)} = {i \in 1..(row_pos - 1) : RowHasData(i)}

C1_Witness ==
    /\ RateLimitedAtLast
    /\ a_pc = "upload_raised"
    /\ Len(remote) >= 1
    /\ page_ids = Unassigned

\* C2: no create call is issued for a row whose every mapped column encodes
\* to omit, every create call carries at least one property, and a skipped
\* row does not stop the rows after it.
C2_EmptyRowsSkipped ==
    /\ \A i \in 1..Len(posts) :
        /\ DOMAIN posts[i].properties # {}
        /\ RowHasData(posts[i].pos)
    /\ a_pc = "done" =>
        PostedPositions = {i \in 1..Len(processed_df.recs) : RowHasData(i)}

C2_Witness ==
    /\ a_pc = "done"
    /\ \E i, j \in 1..Len(processed_df.recs) :
        /\ i < j
        /\ ~RowHasData(i)
        /\ j \in PostedPositions

\* C5: a non-success status other than 429 aborts the upload with an error
\* that carries the offending row's position among the uploaded rows and the
\* status; that row is not posted again and no later row is posted.
C5_CreateErrorCarriesRow ==
    CreateFailedAtLast =>
        /\ a_pc = "upload_raised"
        /\ u_exc.msg = "create_failed"
        /\ u_exc.idx = LastPost.pos - 1
        /\ u_exc.status = LastPost.status
        /\ LastPost.pos = row_pos
        /\ page_ids = Unassigned
        /\ PostsInRowOrder
        /\ \A i \in 1..(Len(posts) - 1) : posts[i].status = 200

\* tab "2": the first sheet row was filtered out, the first uploaded row was
\* skipped, and the second uploaded row (sheet label 2) was refused
C5_Witness ==
    /\ CreateFailedAtLast
    /\ key = "2"
    /\ raw_df.recs[1].row["status"] = Due
    /\ Len(posts) = 1
    /\ LastPost.pos = 2
    /\ u_exc.idx = 1

\* C6: every property name of every create call is a name of the schema
\* fetched at the start of the upload; a mapped column whose destination is
\* not in the schema is left out and raises nothing: the upload only fails
\* on a non-success response.
C6_PayloadWithinSchema ==
    /\ \A i \in 1..Len(posts) :
        /\ DOMAIN posts[i].properties \subseteq DOMAIN properties_schema
        /\ \A k \in 1..Len(column_mapping.items) :
            column_mapping.items[k][2] \notin DOMAIN properties_schema
                => column_mapping.items[k][2] \notin DOMAIN posts[i].properties
    /\ a_pc = "upload_raised" =>
        \/ u_exc.msg = "schema_failed"
        \/ (posts # <<>> /\ LastPost.status # 200)

C6_Witness ==
    /\ a_pc = "done"
    /\ posts # <<>>
    /\ \E k \in 1..Len(column_mapping.items) :
        /\ column_mapping.items[k][2] \notin DOMAIN properties_schema
        /\ ~_is_null(RowGet(processed_df.recs[LastPost.pos].row, column_mapping.items[k][1]))

\* ---- the paginated query ----
AllRecords == ConcatAll([i \in 1..Len(responses) |-> DataResults(responses[i])])

\* the cursor a request carries, None when its body has no start_cursor
HasCursor(body) == "start_cursor" \in DOMAIN body

\* C3: for N successful pages of which every one but the last signals more,
\* the query issues exactly N requests and returns the N pages' records
\* concatenated in page order.
C3_PaginationConcatenates ==
    /\ Len(requests) = Len(responses)
    /\ q_pc = "loop" => \A i \in 1..Len(responses) : responses[i].ok /\ DataHasMore(responses[i])
    /\ q_pc = "done" =>
        /\ \A i \in 1..Len(responses) :
            responses[i].ok /\ (DataHasMore(responses[i]) <=> i < Len(responses))
        /\ q_ret = PyList(AllRecords)

C3_Witness ==
    /\ q_pc = "done"
    /\ Len(requests) = 3
    /\ \A i \in 1..3 : DataResults(responses[i]) # <<>>
    /\ DataResults(responses[1]) # DataResults(responses[2])

\* C4: a non-success answer to any page request ends the query in an error;
\* no further page is requested and the caller receives no record.
C4_QueryFailsWhole ==
    /\ \A i \in 1..Len(responses) : ~responses[i].ok => i = Len(responses)
    /\ (responses # <<>> /\ ~responses[Len(responses)].ok) =>
        /\ q_pc = "raised"
        /\ q_ret = Unassigned

C4_Witness ==
    /\ q_pc = "raised"
    /\ Len(responses) = 3
    /\ results # <<>>
    /\ q_ret = Unassigned

\* C10 (as stated): the first request carries no cursor and every later
\* request carries the next cursor of the response before it, also when that
\* response signals more pages with a null or empty next cursor.
C10_EveryLaterRequestCarriesCursor ==
    \A i \in 1..Len(requests) :
        IF i = 1 THEN ~HasCursor(requests[i])
        ELSE /\ HasCursor(requests[i])
             /\ requests[i].start_cursor = DictGet(responses[i - 1], "next_cursor")

\* C10 (what the code does): the first request carries no cursor; a later
\* request carries the next cursor of the response before it when that cursor
\* is a non-empty string, and carries no cursor (it asks for the first page
\* again) when that cursor is null or empty, because `if start_cursor:` also
\* drops such a cursor; the loop ends at the first response that does not
\* signal more pages.
C10_CursorFollowsResponse ==
    /\ \A i \in 1..Len(requests) :
        IF i = 1 THEN ~HasCursor(requests[i])
        ELSE LET prev == DictGet(responses[i - 1], "next_cursor")
             IN  IF prev \in {None, PyStr(<<>>)}
                 THEN ~HasCursor(requests[i])
                 ELSE HasCursor(requests[i]) /\ requests[i].start_cursor = prev
    /\ \A i \in 1..Len(requests) : i < Len(requests) => DataHasMore(responses[i])
    /\ (responses # <<>> /\ responses[Len(responses)].ok
        /\ ~DataHasMore(responses[Len(responses)])) => q_pc = "done"

C10_Witness ==
    /\ q_pc = "done"
    /\ Len(requests) = 3
    /\ responses[1].next_cursor = PyStr(<<>>)
    /\ responses[2].next_cursor = PyStr(<<"c", "2">>)
    /\ ~HasCursor(requests[2])
    /\ HasCursor(requests[3])

\* ---- the encoder and the decoder ----
\* the null-equivalent values: None, NaN, the empty and the whitespace-only string
NullEquivalent(v) ==
    \/ v = None
    \/ v = NaN
    \/ (v.t = "str" /\ \A i \in 1..Len(v.s) : v.s[i] \in Whitespace)

\* C7: value_to_notion_property returns omit for every null-equivalent value
\* with every column type tag (and with no type tag at all).
C7_NullOmitted ==
    (e_pc # "start" /\ e_pc # "idle" /\ NullEquivalent(e_value)) =>
        /\ e_payload = None
        /\ e_pc = "encoded"

C7_Witness ==
    /\ e_pc = "encoded"
    /\ e_value = PyStr(<<" ", " ">>)
    /\ GetType(e_schema) = "checkbox"
    /\ e_payload = None

IsNumber(v) == v.t \in {"int", "float"}

\* C8 (as stated): decoding the payload that encodes a number yields the
\* number, and decoding the payload that encodes a string as title or
\* rich_text yields the string.
C8_RoundTrip ==
    e_pc = "decoded" =>
        /\ (GetType(e_schema) = "number" /\ IsNumber(e_value)) =>
            ("t" \in DOMAIN e_decoded /\ NumEq(e_decoded, e_value))
        /\ (GetType(e_schema) \in {"title", "rich_text"} /\ e_value.t = "str") =>
            e_decoded = e_value

\* C8 (amended): the payload the encoder builds has no "type" key, so the
\* decoder returns it unchanged; the original is held inside it: a number
\* payload holds float(value), numerically equal to the value, and a title or
\* rich_text payload holds one text span whose content is the string.
C8_PayloadHoldsValue ==
    e_pc = "decoded" =>
        /\ e_decoded = e_payload
        /\ (GetType(e_schema) = "number" /\ IsNumber(e_value)) =>
            /\ DOMAIN e_payload = {"number"}
            /\ NumEq(e_payload.number, e_value)
        /\ (GetType(e_schema) = "title" /\ e_value.t = "str") =>
            /\ DOMAIN e_payload = {"title"}
            /\ Len(e_payload.title) = 1
            /\ e_payload.title[1].text.content = e_value.s
        /\ (GetType(e_schema) = "rich_text" /\ e_value.t = "str") =>
            /\ DOMAIN e_payload = {"rich_text"}
            /\ Len(e_payload.rich_text) = 1
            /\ e_payload.rich_text[1].text.content = e_value.s

C8_Witness ==
    /\ e_pc = "decoded"
    /\ GetType(e_schema) = "title"
    /\ e_value = PyStr(<<" ", "a", " ">>)
    /\ e_decoded = [title |-> <<[type |-> "text", text |-> [content |-> <<" ", "a", " ">>]]>>]

\* ---- the cross-reference ----
Qualifies(pg) ==
    /\ pg.properties.gubun.select.name \in GubunKept
    /\ pg.properties.status.status.name \in StatusKept

\* the pages that pass the filter and carry chart number k
Candidates(k) ==
    {i \in 1..Len(pages) : Qualifies(pages[i]) /\ pages[i].properties.chart_no.number = PyInt(k)}

Dated(k) == {i \in Candidates(k) : pages[i].properties.resv_dt.date # None}

Instant(i) == to_datetime(pages[i].properties.resv_dt.date.start).n

\* the candidates that no other candidate is later than
Latest(k) == {i \in Dated(k) : \A j \in Dated(k) : Instant(j) <= Instant(i)}

====
